---------------------------- MODULE Spec2Model ----------------------------
(***************************************************************************)
(* A model of the Spectral Denoising front end: the tkinter controller     *)
(* SpectralDenoisingGUI (src/app.py), the adapter denoising_pipeline       *)
(* (src/pipeline.py) and the return protocol of head_to_tail_plot          *)
(* (src/spectral_denoising/spectra_plotter.py).                            *)
(*                                                                         *)
(* Representation.  A Python str is a sequence of one-character strings,   *)
(* so that lower(), strip(), endswith() and the regular expressions are    *)
(* computed character by character.  A Python value held in a cell is a    *)
(* record [t, v]: t is the Python type ("str", "NoneType", "int") and v    *)
(* the text str() gives for it.  A pandas DataFrame is a record            *)
(* [kind, cols, index, data]: cols the column labels in order, index the   *)
(* row labels in order, data the rows, each row the cells in column order. *)
(* Floats that the program only stores and compares (the mass tolerance)   *)
(* are held in units of 0.001 Da.                                          *)
(***************************************************************************)
EXTENDS Integers, Sequences, FiniteSets, TLC

VARIABLES
    input_file_path,   \* self.input_file_path (tk.StringVar)
    output_file_path,  \* self.output_file_path (tk.StringVar)
    file_type,         \* self.file_type (tk.StringVar)
    mass_tolerance,    \* self.mass_tolerance (tk.DoubleVar), in 0.001 Da
    mass_mode,         \* self.mass_mode (tk.StringVar)
    loaded_data,       \* self.loaded_data
    custom_tol_entry,  \* state option of self.custom_tol_entry
    progress_value,    \* self.progress_bar['value']
    progress_label,    \* text of self.progress_label
    log,               \* the lines of self.log_text (the last MaxLog of them)
    results,           \* self.results
    msgbox,            \* the message box shown last
    threads,           \* the threading.Thread objects process_data started
    disk,              \* what file_io wrote last
    file_content,      \* what the file at ExistingPath holds, as file_io reads it
    call               \* the operation in progress or run last: its inputs and what it returned

vars == <<input_file_path, output_file_path, file_type, mass_tolerance, mass_mode,
          loaded_data, custom_tol_entry, progress_value, progress_label, log,
          results, msgbox, threads, disk, file_content, call>>

gui_vars == <<input_file_path, output_file_path, file_type, mass_tolerance, mass_mode,
              loaded_data, custom_tol_entry, progress_value, progress_label, log,
              results, msgbox, threads, disk, file_content>>

-----------------------------------------------------------------------------
(* Bounds of the model *)

\* the log pane keeps its last MaxLog lines in the model
MaxLog == 2
\* a comment string is built from at most MaxFrags fragments
MaxFrags == 4
\* a frame given to a helper has at most MaxCols columns
MaxCols == 4
\* a frame has at most MaxRows rows
MaxRows == 2
\* process_data can start at most MaxThreads threads in one run of the model
MaxThreads == 2

-----------------------------------------------------------------------------
(* Python values *)

PyStr(s) == [t |-> "str", v |-> s]

PyNone == [t |-> "NoneType", v |-> <<"N", "o", "n", "e">>]

\* pd.isna on a scalar cell
isna(x) == x.t = "NoneType"

UpperChars == <<"A","B","C","D","E","F","G","H","I","J","K","L","M",
                "N","O","P","Q","R","S","T","U","V","W","X","Y","Z">>

LowerChars == <<"a","b","c","d","e","f","g","h","i","j","k","l","m",
                "n","o","p","q","r","s","t","u","v","w","x","y","z">>

lower_char(c) ==
    IF \E i \in 1..26 : UpperChars[i] = c
    THEN LowerChars[CHOOSE i \in 1..26 : UpperChars[i] = c]
    ELSE c

\* str.lower()
lower(s) == [i \in 1..Len(s) |-> lower_char(s[i])]

\* the characters str.strip() removes
Whitespace == {" ", "\t", "\n", "\r"}

RECURSIVE lstrip(_)
lstrip(s) == IF s # <<>> /\ Head(s) \in Whitespace THEN lstrip(Tail(s)) ELSE s

RECURSIVE rstrip(_)
rstrip(s) ==
    IF s # <<>> /\ s[Len(s)] \in Whitespace THEN rstrip(SubSeq(s, 1, Len(s) - 1)) ELSE s

\* str.strip()
strip(s) == rstrip(lstrip(s))

\* str.endswith(suffix)
endswith(s, suffix) ==
    /\ Len(suffix) <= Len(s)
    /\ SubSeq(s, Len(s) - Len(suffix) + 1, Len(s)) = suffix

RECURSIVE Concat(_)
Concat(ss) == IF ss = <<>> THEN <<>> ELSE Head(ss) \o Concat(Tail(ss))

IntToDigit(n) == <<"0","1","2","3","4","5","6","7","8","9">>[n + 1]

RECURSIVE IntToStr(_)
\* str(n) for a natural number
IntToStr(n) == IF n < 10 THEN <<IntToDigit(n)>> ELSE IntToStr(n \div 10) \o <<IntToDigit(n % 10)>>

-----------------------------------------------------------------------------
(* extract_smiles_from_comments *)

S_computed_SMILES_eq ==
    <<"c","o","m","p","u","t","e","d"," ","S","M","I","L","E","S","=">>

S_SMILES_eq == <<"S","M","I","L","E","S","=">>

Quote == "\""

\* the literal prefix `lit` of the pattern matches s at position i
LiteralAt(lit, s, i) ==
    /\ i + Len(lit) - 1 <= Len(s)
    /\ SubSeq(s, i, i + Len(lit) - 1) = lit

RECURSIVE NonQuoteRun(_, _)
\* ([^"]+) is greedy: the characters of s from position j up to the next quote or the end
NonQuoteRun(s, j) ==
    IF j > Len(s) \/ s[j] = Quote THEN <<>> ELSE <<s[j]>> \o NonQuoteRun(s, j + 1)

\* the positions where  lit([^"]+)  matches: the literal, then at least one non-quote
MatchStarts(lit, s) ==
    {i \in 1..Len(s) : LiteralAt(lit, s, i) /\ NonQuoteRun(s, i + Len(lit)) # <<>>}

SetMin(S) == CHOOSE x \in S : \A y \in S : x <= y

\* re.search(lit + '([^"]+)', s): the leftmost match, found and group(1)
re_search(lit, s) ==
    LET starts == MatchStarts(lit, s)
    IN IF starts = {}
       THEN [found |-> FALSE, group1 |-> <<>>]
       ELSE [found |-> TRUE, group1 |-> NonQuoteRun(s, SetMin(starts) + Len(lit))]

\* a variant that tries 'SMILES=' before 'computed SMILES='
extract_smiles_swapped(comments_str) ==
    IF isna(comments_str) \/ comments_str.t # "str"
    THEN PyNone
    ELSE LET m1 == re_search(S_SMILES_eq, comments_str.v)
             m2 == re_search(S_computed_SMILES_eq, comments_str.v)
         IN IF m1.found THEN PyStr(strip(m1.group1))
            ELSE IF m2.found THEN PyStr(strip(m2.group1))
            ELSE PyNone

extract_smiles_from_comments(comments_str) ==
    IF isna(comments_str) \/ comments_str.t # "str"
    THEN PyNone
    ELSE LET m1 == re_search(S_computed_SMILES_eq, comments_str.v)
             m2 == re_search(S_SMILES_eq, comments_str.v)
         IN IF m1.found THEN PyStr(strip(m1.group1))
            ELSE IF m2.found THEN PyStr(strip(m2.group1))
            ELSE PyNone


-----------------------------------------------------------------------------
(* pandas frames *)

DataFrame(cols, index, data) ==
    [kind |-> "DataFrame", cols |-> cols, index |-> index, data |-> data]

\* Python's None where a frame is expected (self.loaded_data = None)
NoneObj == [kind |-> "NoneType", cols |-> <<>>, index |-> <<>>, data |-> <<>>]

\* a reader result that is not a pandas DataFrame (line 346 tests for it)
ListObj(rows) == [kind |-> "list", cols |-> <<>>, index |-> <<>>, data |-> rows]

\* the attribute self.results before the first assignment to it
Unset == [kind |-> "unset", cols |-> <<>>, index |-> <<>>, data |-> <<>>]

\* len(obj) of a frame or a list
len(obj) == Len(obj.data)

\* pd.RangeIndex(n): the row labels 0 .. n-1
RangeIndex(n) == [i \in 1..n |-> i - 1]

\* name in df.columns
HasCol(df, name) == \E i \in 1..Len(df.cols) : df.cols[i] = name

\* the positions of the columns labelled name
ColPositions(df, name) == {i \in 1..Len(df.cols) : df.cols[i] = name}

\* df[name] for a label that occurs once: the cells of that column, row by row
Series(df, name) ==
    LET c == SetMin(ColPositions(df, name))
    IN [r \in 1..Len(df.data) |-> df.data[r][c]]

S_peaks == <<"p","e","a","k","s">>

S_smiles == <<"s","m","i","l","e","s">>

S_adducts == <<"a","d","d","u","c","t","s">>

S_comments == <<"c","o","m","m","e","n","t","s">>

S_denoised_peaks == <<"d","e","n","o","i","s","e","d","_","p","e","a","k","s">>

\* one line of the log pane: the text of the message and the values formatted into it
Line(m, args) == [m |-> m, args |-> args]

-----------------------------------------------------------------------------
(* standardize_columns *)

column_mapping ==
    (<<"m","s","m","s">> :> S_peaks) @@
    (<<"m","s","/","m","s">> :> S_peaks) @@
    (<<"p","e","a","k">> :> S_peaks) @@
    (<<"p","e","a","k","s">> :> S_peaks) @@
    (<<"s","p","e","c","t","r","a">> :> S_peaks) @@
    (<<"s","p","e","c","t","r","u","m">> :> S_peaks) @@
    (<<"s","m","i","l","e">> :> S_smiles) @@
    (<<"s","m","i","l","e","s">> :> S_smiles) @@
    (<<"a","d","d","u","c","t">> :> S_adducts) @@
    (<<"a","d","d","u","c","t","s">> :> S_adducts)

\* a variant that looks the label up as it is written
mapping_key_case_sensitive(col) == col

\* the key standardize_columns looks a column label up by (col_lower, line 48)
mapping_key(col) == lower(col)

\* df.rename(columns=new_columns): the label of column col after the renaming
renamed_label(col) ==
    IF mapping_key(col) \in DOMAIN column_mapping
    THEN column_mapping[mapping_key(col)]
    ELSE col

\* the frame standardize_columns returns
standardize_columns(df) ==
    [df EXCEPT !.cols = [i \in 1..Len(df.cols) |-> renamed_label(df.cols[i])]]

RECURSIVE mapped_lines(_)
mapped_lines(cols) ==
    IF cols = <<>> THEN <<>>
    ELSE (IF mapping_key(Head(cols)) \in DOMAIN column_mapping
          THEN <<Line("Mapped column '{col}' -> '{column_mapping[col_lower]}'",
                      <<Head(cols), column_mapping[mapping_key(Head(cols))]>>)>>
          ELSE <<>>)
         \o mapped_lines(Tail(cols))

\* the lines standardize_columns logs
standardize_columns_log(df) ==
    LET mapped == mapped_lines(df.cols)
    IN IF mapped # <<>>
       THEN mapped \o <<Line("Column standardization complete", <<>>)>>
       ELSE <<Line("No column names needed standardization", <<>>)>>

-----------------------------------------------------------------------------
(* fill_missing_smiles *)

\* a variant that does not test for an existing 'smiles' column
fill_needed_any(df) == HasCol(df, S_comments)

\* the condition of line 82
fill_needed(df) == ~HasCol(df, S_smiles) /\ HasCol(df, S_comments)

\* df['comments'].apply(self.extract_smiles_from_comments)
extracted_smiles(df) ==
    LET comments == Series(df, S_comments)
    IN [r \in 1..Len(df.data) |-> extract_smiles_from_comments(comments[r])]

\* the frame fill_missing_smiles returns (df['smiles'] = ... appends the new column)
fill_missing_smiles(df) ==
    IF fill_needed(df)
    THEN [df EXCEPT !.cols = Append(@, S_smiles),
                    !.data = [r \in 1..Len(df.data) |-> Append(df.data[r], extracted_smiles(df)[r])]]
    ELSE df

\* df['smiles'].notna().sum()
notna_count(cells) == Cardinality({r \in 1..Len(cells) : ~isna(cells[r])})

\* the lines fill_missing_smiles logs
fill_missing_smiles_log(df) ==
    IF fill_needed(df)
    THEN LET valid_smiles == notna_count(extracted_smiles(df))
         IN <<Line("SMILES column not found, attempting to extract from comments...", <<>>),
              Line("Extracted SMILES for {valid_smiles}/{total_rows} entries from comments",
                   <<IntToStr(valid_smiles), IntToStr(len(df))>>)>>
            \o (IF valid_smiles = 0
                THEN <<Line("Warning: No SMILES found in comments", <<>>)>>
                ELSE <<>>)
    ELSE <<>>


-----------------------------------------------------------------------------
(* tkinter.messagebox *)

\* no message box shown yet
NoBox == [kind |-> "none", title |-> "", text |-> "", args |-> <<>>]

\* a message box: the messagebox function, its title, its text and the values formatted into it
Box(kind, title, text, args) == [kind |-> kind, title |-> title, text |-> text, args |-> args]

-----------------------------------------------------------------------------
(* validate_smiles *)

\* Chem.MolFromSmiles(s) is not None.  RDKit is external: over the SMILES texts of
\* this model it accepts exactly the chains of the atoms C, N and O.
MolFromSmiles_ok(s) == \A i \in 1..Len(s) : s[i] \in {"C", "N", "O"}

\* what enumerate(df['smiles']) iterates over: the cells of the column, or, when
\* several columns are labelled 'smiles', the labels of the sub-frame df['smiles']
smiles_iter(df) ==
    LET n == Cardinality(ColPositions(df, S_smiles))
    IN IF n = 1 THEN Series(df, S_smiles) ELSE [k \in 1..n |-> PyStr(S_smiles)]

\* lines 107-115: is the value at one position of the iteration invalid
smiles_invalid(x) == isna(x) \/ ~MolFromSmiles_ok(x.v)

\* invalid_indices (line 103), as positions 1.. of the iteration, ascending
invalid_indices(df) ==
    LET it == smiles_iter(df)
    IN SelectSeq([i \in 1..Len(it) |-> i], LAMBDA i : smiles_invalid(it[i]))

\* invalid_smiles (line 104)
invalid_smiles(df) ==
    LET it == smiles_iter(df)
        inv == invalid_indices(df)
    IN [k \in 1..Len(inv) |->
          IF isna(it[inv[k]]) THEN <<"(","m","i","s","s","i","n","g",")">> ELSE it[inv[k]].v]

RECURSIVE join_quoted(_)
\* ', '.join([f"'{s}'" for s in examples])
join_quoted(examples) ==
    IF examples = <<>> THEN <<>>
    ELSE <<"'">> \o Head(examples) \o <<"'">>
         \o (IF Tail(examples) = <<>> THEN <<>> ELSE <<",", " ">> \o join_quoted(Tail(examples)))

\* example_str (lines 125-128)
example_str(df) ==
    LET inv == invalid_smiles(df)
        examples == SubSeq(inv, 1, IF Len(inv) < 5 THEN Len(inv) ELSE 5)
    IN join_quoted(examples)
       \o (IF Len(inv) > 5
           THEN <<" ",".",".","."," ","a","n","d"," ">> \o IntToStr(Len(inv) - 5) \o <<" ","m","o","r","e">>
           ELSE <<>>)

\* df.index[invalid_indices] raises IndexError when a position is past the last row
drop_raises(df) == \E k \in 1..Len(invalid_indices(df)) : invalid_indices(df)[k] > Len(df.index)

\* the row positions df.drop(df.index[invalid_indices]) keeps: drop removes by label
kept_rows(df) ==
    LET inv == invalid_indices(df)
        labels == {df.index[inv[k]] : k \in 1..Len(inv)}
    IN SelectSeq([r \in 1..Len(df.index) |-> r], LAMBDA r : df.index[r] \notin labels)

\* .reset_index(drop=True) (line 145)
reset_index(n) == RangeIndex(n)

\* df.drop(df.index[invalid_indices]).reset_index(drop=True)
drop_invalid(df) ==
    LET keep == kept_rows(df)
    IN [df EXCEPT !.index = reset_index(Len(keep)),
                  !.data = [k \in 1..Len(keep) |-> df.data[keep[k]]]]

\* lines 117-149 of validate_smiles, for invalid_count invalid entries with the
\* examples example_text, the user answering `response` to askyesno
validate_counted(df, response, invalid_count, example_text) ==
    LET total == len(df)
        counted == <<Line("Validating SMILES structures...", <<>>),
                     \* valid_count = total - invalid_count is negative when labels were counted
                     Line("SMILES validation: {valid_count}/{total} valid, {invalid_count} invalid",
                          <<IF total >= invalid_count THEN IntToStr(total - invalid_count)
                            ELSE <<"-">> \o IntToStr(invalid_count - total),
                            IntToStr(total), IntToStr(invalid_count)>>)>>
        asked == counted \o <<Line("Invalid SMILES examples: {example_str}", <<example_text>>)>>
        box == Box("askyesno", "Invalid SMILES Detected",
                   "Found {invalid_count} invalid SMILES out of {total} entries. Do you want to continue anyway?",
                   <<IntToStr(invalid_count), IntToStr(total), example_text>>)
    IN IF invalid_count = 0
       THEN [ret |-> df, raised |-> FALSE, asked |-> 0, box |-> NoBox, lines |-> counted]
       ELSE IF ~response
       THEN [ret |-> NoneObj, raised |-> FALSE, asked |-> 1, box |-> box, lines |-> asked]
       ELSE IF drop_raises(df)
       THEN [ret |-> NoneObj, raised |-> TRUE, asked |-> 1, box |-> box, lines |-> asked]
       ELSE [ret |-> drop_invalid(df), raised |-> FALSE, asked |-> 1, box |-> box,
             lines |-> asked \o <<Line("Dropped {invalid_count} rows with invalid SMILES", <<IntToStr(invalid_count)>>),
                                  Line("Remaining rows: {len(df)}", <<IntToStr(len(drop_invalid(df)))>>)>>]

\* validate_smiles(df) when the user answers `response` to askyesno: the value returned
\* (ret), whether it raised, how often the user was asked, the box shown and the lines logged
validate_smiles(df, response) ==
    IF ~HasCol(df, S_smiles)
    THEN [ret |-> df, raised |-> FALSE, asked |-> 0, box |-> NoBox, lines |-> <<>>]
    ELSE validate_counted(df, response, Len(invalid_indices(df)), example_str(df))

-----------------------------------------------------------------------------
(* denoising_pipeline (src/pipeline.py) *)

\* a variant that leaves the column labels as they are
lower_columns_skipped(df) == df

\* input_df.columns = [col.lower() for col in input_df.columns]
lower_columns(df) == [df EXCEPT !.cols = [i \in 1..Len(df.cols) |-> lower(df.cols[i])]]

\* input_df[name]: the cells of every column labelled name, one sequence per column
\* (a Series when the label occurs once, a sub-frame when it is duplicated)
Select(df, name) ==
    LET ps == SelectSeq([i \in 1..Len(df.cols) |-> i], LAMBDA i : df.cols[i] = name)
    IN [k \in 1..Len(ps) |-> [r \in 1..Len(df.data) |-> df.data[r][ps[k]]]]

\* the denoised spectrum the external library computes for one row: opaque to this
\* repository, so a term over the row's peaks, SMILES and adduct and the tolerance
Denoised(p, s, a, tol) ==
    [t |-> "denoised", v |-> p.v \o <<"|">> \o s.v \o <<"|">> \o a.v \o <<"@">> \o IntToStr(tol)]

\* spectral_denoising_batch(peaks, smiles, adducts, mass_tolerance=...): one result per row
spectral_denoising_batch(peaks, smiles, adducts, tolerance) ==
    [r \in 1..Len(peaks[1]) |-> Denoised(peaks[1][r], smiles[1][r], adducts[1][r], tolerance)]

\* df[name] = values: overwrites the columns labelled name, or appends a new column
set_column(df, name, values) ==
    IF HasCol(df, name)
    THEN [df EXCEPT !.data = [r \in 1..Len(df.data) |->
                                [c \in 1..Len(df.cols) |-> IF df.cols[c] = name THEN values[r] ELSE df.data[r][c]]]]
    ELSE [df EXCEPT !.cols = Append(@, name),
                    !.data = [r \in 1..Len(df.data) |-> Append(df.data[r], values[r])]]

\* the arguments of the one call of spectral_denoising_batch (line 14)
batch_args(low, mass_error) ==
    [peaks |-> Select(low, S_peaks), smiles |-> Select(low, S_smiles),
     adducts |-> Select(low, S_adducts), mass_tolerance |-> mass_error]

\* output_df (lines 16-17)
output_df(low, mass_error) ==
    LET a == batch_args(low, mass_error)
    IN set_column(low, S_denoised_peaks,
                  spectral_denoising_batch(a.peaks, a.smiles, a.adducts, a.mass_tolerance))

\* denoising_pipeline(input_df, mass_error), the external batch call raising or not:
\* whether it raised, the frame returned, the caller's frame afterwards (line 9
\* relabels it in place) and the calls made of spectral_denoising_batch
denoising_pipeline(input_df, mass_error, batch_raises) ==
    IF input_df.kind # "DataFrame"
    THEN \* None and a list have no attribute columns
         [raised |-> TRUE, ret |-> NoneObj, input_after |-> input_df, batch_calls |-> <<>>]
    ELSE LET low == lower_columns(input_df)
         IN IF ~HasCol(low, S_peaks) \/ ~HasCol(low, S_smiles) \/ ~HasCol(low, S_adducts)
            THEN \* KeyError at lines 10-12
                 [raised |-> TRUE, ret |-> NoneObj, input_after |-> low, batch_calls |-> <<>>]
            ELSE IF batch_raises
            THEN [raised |-> TRUE, ret |-> NoneObj, input_after |-> low,
                  batch_calls |-> <<batch_args(low, mass_error)>>]
            ELSE [raised |-> FALSE, ret |-> output_df(low, mass_error), input_after |-> low,
                  batch_calls |-> <<batch_args(low, mass_error)>>]

-----------------------------------------------------------------------------
(* head_to_tail_plot (src/spectral_denoising/spectra_plotter.py) *)

PyBool(b) == [t |-> "bool", v |-> IF b THEN <<"T","r","u","e">> ELSE <<"F","a","l","s","e">>]

PyInt(n) == [t |-> "int", v |-> IntToStr(n)]

\* the module matplotlib.pyplot, which return(plt) hands back
PyPlt == [t |-> "module", v |-> <<"p","l","t">>]

\* the empty tuple, the value of the expression ()
PyEmptyTuple == [t |-> "tuple", v |-> <<"(",")">>]

\* show == True: Python compares bool and int by value
eq_True(x) == x = PyBool(TRUE) \/ (x.t = "int" /\ x.v = <<"1">>)

\* no call of plt.savefig
NoSave == [path |-> <<>>, format |-> "none"]

\* lines 164-169: what plt.savefig is called with
savefig(savepath, eps) ==
    IF savepath = PyNone THEN NoSave
    ELSE [path |-> savepath.v, format |-> IF eq_True(eps) THEN "eps" ELSE "default"]

\* head_to_tail_plot(msms1, msms2, pmz=, manual_min=, savepath=, show=, eps=): whether
\* it raised, the value returned and the figure saved.  msms1 and msms2 are "array"
\* (a 2D array), "str" (its text) or "float" (the type float itself, what lines 82-84
\* test for); lib_raises is whether a call into spectral_operations, numpy or
\* matplotlib raises.
head_to_tail_plot(msms1, msms2, pmz, manual_min, savepath, show, eps, lib_raises) ==
    IF msms1 = "float" \/ msms2 = "float"
    THEN [raised |-> FALSE, ret |-> PyInt(0), saved |-> NoSave]
    ELSE IF lib_raises
    THEN [raised |-> TRUE, ret |-> PyNone, saved |-> NoSave]
    ELSE IF manual_min # PyNone /\ pmz = PyNone
    THEN \* pmz+2 at line 156 with pmz None
         [raised |-> TRUE, ret |-> PyNone, saved |-> NoSave]
    ELSE [raised |-> FALSE,
          ret |-> IF eq_True(show) THEN PyPlt ELSE PyEmptyTuple,
          saved |-> savefig(savepath, eps)]

-----------------------------------------------------------------------------
(* The state after SpectralDenoisingGUI.__init__ *)

\* the preset tolerances, in 0.001 Da (0.005 and 0.01)
OrbitrapTol == 5

TofTol == 10

\* self.log_text.insert(tk.END, message + '\n'), keeping the last MaxLog lines
log_append(lg, lines) ==
    LET all == lg \o lines
    IN IF Len(all) <= MaxLog THEN all ELSE SubSeq(all, Len(all) - MaxLog + 1, Len(all))

\* a Thread object not started yet: where it is in _process_data_thread (pc), its locals
\* mass_tol and output_path, how often it has called denoising_pipeline (runs), and
\* the progress bar value and label at the moment it shows its last message box
NoThread ==
    [pc |-> "unstarted", mass_tol |-> 0, output_path |-> <<>>, runs |-> 0,
     end_value |-> 0, end_label |-> "", end_box |-> ""]

NoWrite == [writer |-> "none", path |-> <<>>, frame |-> Unset, msms_col |-> <<>>]

NoCall == [fn |-> "none"]

\* an entry, a radio button without command or a file dialog was used
WidgetCall == [fn |-> "widget"]

\* lines 17-24 and create_widgets, which ends by calling on_mass_mode_change (line 254)
GuiInit ==
    /\ input_file_path = <<>>
    /\ output_file_path = <<>>
    /\ file_type = "msp"
    /\ mass_tolerance = OrbitrapTol
    /\ mass_mode = "orbitrap"
    /\ loaded_data = NoneObj
    /\ custom_tol_entry = "disabled"
    /\ progress_value = 0
    /\ progress_label = "0%"
    /\ log = log_append(<<>>, <<Line("Mass tolerance set to: 0.005 Da (Orbitrap)", <<>>)>>)
    /\ results = Unset
    /\ msgbox = NoBox
    /\ threads = [t \in 1..MaxThreads |-> NoThread]
    /\ disk = NoWrite

\* no file at ExistingPath matters to the run
NoFile == ListObj(<<>>)

-----------------------------------------------------------------------------
(* Frames as file_io reads them *)

\* a row is one of: a parseable SMILES, an unparseable SMILES, a missing SMILES
RowKinds == {"good", "bad", "missing"}

\* the cell of a row of kind `kind` in row r and column c labelled label
CellFor(label, kind, r, c) ==
    IF lower(label) \in {S_smiles, <<"s","m","i","l","e">>}
    THEN (IF kind = "good" THEN PyStr(<<"C","O">>)
          ELSE IF kind = "bad" THEN PyStr(<<"C","(">>)
          ELSE PyNone)
    ELSE IF lower(label) = S_comments
    THEN (IF kind = "good" THEN PyStr(<<Quote>> \o S_computed_SMILES_eq \o <<"C","N",Quote>>)
          ELSE IF kind = "bad" THEN PyStr(S_SMILES_eq \o <<"C","(">>)
          ELSE PyStr(<<"n","/","a">>))
    ELSE PyStr(<<"x", IntToDigit(c), IntToDigit(r)>>)

\* the frame with the column labels cols and one row per element of kinds
MakeFrame(cols, kinds) ==
    DataFrame(cols, RangeIndex(Len(kinds)),
              [r \in 1..Len(kinds) |-> [c \in 1..Len(cols) |-> CellFor(cols[c], kinds[r], r, c)]])

RowKindSeqs == UNION {[1..n -> RowKinds] : n \in 0..MaxRows}

\* the column labels of the files the user loads, in the order the files hold them
FileLabels ==
    << <<"P","e","a","k","s">>, <<"S","M","I","L","E","S">>, <<"s","m","i","l","e">>,
       <<"A","d","d","u","c","t">>, S_comments >>

\* the selections of at most n of the labels, in file order
LabelSelections(labels, n) ==
    {SelectSeq(labels, LAMBDA l : l \in S) :
        S \in {T \in SUBSET {labels[i] : i \in 1..Len(labels)} : Cardinality(T) <= n}}

\* what file_io can read from the file at ExistingPath: a frame, or an object that is none
FileContents ==
    {MakeFrame(cols, kinds) : cols \in LabelSelections(FileLabels, MaxCols), kinds \in RowKindSeqs}
    \cup {ListObj(<<1>>)}

\* the file at LibraryPath
LibraryContent ==
    MakeFrame(<<<<"P","E","A","K","S">>, <<"s","m","i","l","e","s">>, <<"a","d","d","u","c","t","s">>>>,
              <<"good">>)

-----------------------------------------------------------------------------
(* The environment: paths, the file system, what the user types *)

\* the one input path at which a file exists
ExistingPath == <<"a",".","c","s","v">>

\* an input path at which no file exists
MissingPath == <<"b",".","m","s","p">>

\* a second input path at which a file exists: a well-formed library
LibraryPath == <<"l","i","b",".","m","s","p">>

\* os.path.exists(file_path)
exists(file_path) == file_path \in {ExistingPath, LibraryPath}

\* what the user can put into the input path entry or pick in the open dialog ("": cancelled)
InputPaths == {<<>>, ExistingPath, MissingPath, LibraryPath}

\* the text of a DoubleVar whose entry does not hold a number: get() raises TclError
NotANumber == 0 - 1

\* what the user can type into the custom tolerance entry: 0.02, or text that is no number
TypedTolerances == {20, NotANumber}

\* str(x) of the float x = n / 1000, for 0 <= n
TolToStr(n) ==
    LET f == n % 1000
        d3 == <<IntToDigit(f \div 100), IntToDigit((f \div 10) % 10), IntToDigit(f % 10)>>
        frac == IF f % 10 # 0 THEN d3
                ELSE IF f % 100 # 0 THEN SubSeq(d3, 1, 2)
                ELSE SubSeq(d3, 1, 1)
    IN IntToStr(n \div 1000) \o <<".">> \o frac

RECURSIVE join(_, _)
\* sep.join(strs)
join(sep, strs) ==
    IF strs = <<>> THEN <<>>
    ELSE IF Tail(strs) = <<>> THEN Head(strs)
    ELSE Head(strs) \o sep \o join(sep, Tail(strs))

path_vars == <<input_file_path, output_file_path, file_type>>

mode_vars == <<mass_tolerance, mass_mode, custom_tol_entry>>

progress_vars == <<progress_value, progress_label>>

\* what file_io.read_msp / file_io.read_df return for file_path
read_file(file_path, content) == IF file_path = LibraryPath THEN LibraryContent ELSE content

-----------------------------------------------------------------------------
(* The entries, radio buttons and file dialogs *)

\* the user edits the input path entry (textvariable=self.input_file_path, line 180)
SetInputPath(path) ==
    /\ input_file_path' = path
    /\ call' = WidgetCall
    /\ UNCHANGED <<output_file_path, file_type, mode_vars, loaded_data, progress_vars, log,
                   results, msgbox, threads, disk, file_content>>

\* the user edits the output path entry (textvariable=self.output_file_path, line 216)
SetOutputPath(path) ==
    /\ output_file_path' = path
    /\ call' = WidgetCall
    /\ UNCHANGED <<input_file_path, file_type, mode_vars, loaded_data, progress_vars, log,
                   results, msgbox, threads, disk, file_content>>

\* the user picks a file type radio button (lines 174-177: no command)
SelectFileType(ft) ==
    /\ file_type' = ft
    /\ call' = WidgetCall
    /\ UNCHANGED <<input_file_path, output_file_path, mode_vars, loaded_data, progress_vars, log,
                   results, msgbox, threads, disk, file_content>>

\* browse_input_file, the dialog returning filename
browse_input_file(filename) ==
    /\ input_file_path' = IF filename # <<>> THEN filename ELSE input_file_path
    /\ file_type' = IF filename # <<>> /\ endswith(filename, <<".","m","s","p">>) THEN "msp"
                    ELSE IF filename # <<>> /\ endswith(filename, <<".","c","s","v">>) THEN "csv"
                    ELSE file_type
    /\ call' = WidgetCall
    /\ UNCHANGED <<output_file_path, mode_vars, loaded_data, progress_vars, log,
                   results, msgbox, threads, disk, file_content>>

\* browse_output_file, the dialog returning filename
browse_output_file(filename) ==
    /\ output_file_path' = IF filename # <<>> THEN filename ELSE output_file_path
    /\ call' = WidgetCall
    /\ UNCHANGED <<input_file_path, file_type, mode_vars, loaded_data, progress_vars, log,
                   results, msgbox, threads, disk, file_content>>

\* the user types into the custom tolerance entry, which takes input only when enabled
EditTolerance(v) ==
    /\ custom_tol_entry = "normal"
    /\ mass_tolerance' = v
    /\ call' = WidgetCall
    /\ UNCHANGED <<path_vars, mass_mode, custom_tol_entry, loaded_data, progress_vars, log,
                   results, msgbox, threads, disk, file_content>>

-----------------------------------------------------------------------------
(* on_mass_mode_change *)

\* a variant in which the custom branch puts the Orbitrap preset back
mass_mode_effect_preset(mode, tol) ==
    [tol |-> IF mode = "tof" THEN TofTol ELSE OrbitrapTol,
     entry |-> IF mode = "custom" THEN "normal" ELSE "disabled",
     lines |-> <<>>]

\* what on_mass_mode_change does in mode `mode` with tolerance tol: the tolerance and
\* the entry state afterwards and the lines logged (in the custom branch get() raises
\* on text that is no number, after the entry was enabled and before the line is logged)
mass_mode_effect(mode, tol) ==
    IF mode = "orbitrap"
    THEN [tol |-> OrbitrapTol, entry |-> "disabled",
          lines |-> <<Line("Mass tolerance set to: 0.005 Da (Orbitrap)", <<>>)>>]
    ELSE IF mode = "tof"
    THEN [tol |-> TofTol, entry |-> "disabled",
          lines |-> <<Line("Mass tolerance set to: 0.01 Da (ToF)", <<>>)>>]
    ELSE [tol |-> tol, entry |-> "normal",
          lines |-> IF tol = NotANumber THEN <<>>
                    ELSE <<Line("Mass tolerance mode: Custom (current value: {self.mass_tolerance.get()} Da)",
                                <<TolToStr(tol)>>)>>]

\* the user picks a mass mode radio button: the variable is set, then the command runs
on_mass_mode_change(mode) ==
    LET e == mass_mode_effect(mode, mass_tolerance)
    IN /\ mass_mode' = mode
       /\ mass_tolerance' = e.tol
       /\ custom_tol_entry' = e.entry
       /\ log' = log_append(log, e.lines)
       /\ call' = [fn |-> "on_mass_mode_change", mode |-> mode, tol_before |-> mass_tolerance]
       /\ UNCHANGED <<path_vars, loaded_data, progress_vars, results, msgbox, threads, disk,
                      file_content>>

-----------------------------------------------------------------------------
(* load_file *)

required_columns == <<S_peaks, S_smiles, S_adducts>>

\* a variant that does not require the adducts column
missing_columns_no_adducts(df) ==
    SelectSeq(<<S_peaks, S_smiles>>, LAMBDA col : ~HasCol(df, col))

\* missing_columns (line 360)
missing_columns(df) == SelectSeq(required_columns, LAMBDA col : ~HasCol(df, col))

SuccessBox(n) ==
    Box("showinfo", "Success", "File loaded!\n Total spectra loaded: {len(self.loaded_data)}", <<IntToStr(n)>>)

FailedToLoadBox == Box("showerror", "Error", "Failed to load file:\n{str(e)}", <<>>)

InvalidFormatBox(df) ==
    Box("showerror", "Invalid File Format",
        "Missing required columns: {missing}\n\nAvailable columns: {columns}\n\nPlease select a file with 'peaks', 'smiles', and 'adducts' columns.",
        <<join(<<",", " ">>, missing_columns(df)), join(<<",", " ">>, df.cols)>>)

\* the line logged after the read (lines 340 and 343)
loaded_line(ftype, n) ==
    IF ftype = "msp"
    THEN Line("Successfully loaded MSP file with {len(self.loaded_data)} spectra", <<IntToStr(n)>>)
    ELSE Line("Successfully loaded CSV file with {len(self.loaded_data)} rows", <<IntToStr(n)>>)

\* a variant whose except clause drops the data held: self.loaded_data = None
load_except_clears(loaded, lines, boxes, trace) ==
    [loaded |-> NoneObj,
     lines |-> lines \o <<Line("Error loading file: {str(e)}", <<>>)>>,
     boxes |-> boxes \o <<FailedToLoadBox>>,
     trace |-> trace]

\* the except clause (lines 376-378)
load_except(loaded, lines, boxes, trace) ==
    [loaded |-> loaded,
     lines |-> lines \o <<Line("Error loading file: {str(e)}", <<>>)>>,
     boxes |-> boxes \o <<FailedToLoadBox>>,
     trace |-> trace]

\* what validate_smiles was called with and returned, for a run that did not reach it
NotValidated == [reached |-> FALSE, arg |-> NoneObj, ret |-> NoneObj, asked |-> 0, raised |-> FALSE]

\* lines 354-374 of load_file: the frame read, the frame validate_smiles was called
\* with, what it gave (v), and the lines logged before that call
load_validated(read, filled, v, lines_before) ==
    LET lines1 == lines_before \o v.lines
        asked == IF v.asked = 1 THEN <<v.box>> ELSE <<>>
        trace == [read |-> read,
                  validate |-> [reached |-> TRUE, arg |-> filled, ret |-> v.ret,
                                asked |-> v.asked, raised |-> v.raised]]
    IN
    IF v.raised
    THEN load_except(filled, lines1, asked, trace)
    ELSE IF v.ret.kind = "NoneType"
    THEN [loaded |-> NoneObj,
          lines |-> lines1 \o <<Line("Data loading cancelled by user due to invalid SMILES", <<>>)>>,
          boxes |-> asked, trace |-> trace]
    ELSE IF missing_columns(v.ret) # <<>>
    THEN [loaded |-> NoneObj,
          lines |-> lines1 \o <<Line("Validation failed: Missing columns {missing_columns}",
                                     <<join(<<",", " ">>, missing_columns(v.ret))>>)>>,
          boxes |-> asked \o <<InvalidFormatBox(v.ret)>>, trace |-> trace]
    ELSE [loaded |-> v.ret,
          lines |-> lines1 \o <<Line("Total spectra loaded: {len(self.loaded_data)}", <<IntToStr(len(v.ret))>>)>>,
          boxes |-> asked \o <<SuccessBox(len(v.ret))>>, trace |-> trace]

\* lines 353-374: validate_smiles on the frame fill_missing_smiles returned
load_filled(read, std, filled, response, lines0) ==
    load_validated(read, filled, validate_smiles(filled, response),
                   lines0 \o standardize_columns_log(read) \o fill_missing_smiles_log(std))

\* lines 347-374: the frame read is standardized, filled, validated and checked
load_frame(read, response, lines0) ==
    load_filled(read, standardize_columns(read), fill_missing_smiles(standardize_columns(read)),
                response, lines0)

\* load_file with input path file_path, file type ftype and self.loaded_data = loaded, the
\* file holding content, the reader raising or not, the user answering response to
\* askyesno: self.loaded_data afterwards, the lines logged, the boxes shown in order,
\* and the frame read and the call of validate_smiles
load_file_result(file_path, ftype, loaded, content, read_raises, response) ==
    LET none == [read |-> NoneObj, validate |-> NotValidated]
        loading == <<Line("Loading file: {file_path}", <<file_path>>)>>
    IN
    IF file_path = <<>>
    THEN [loaded |-> loaded, lines |-> <<>>,
          boxes |-> <<Box("showerror", "Error", "Please select an input file", <<>>)>>, trace |-> none]
    ELSE IF ~exists(file_path)
    THEN [loaded |-> loaded, lines |-> <<>>,
          boxes |-> <<Box("showerror", "Error", "File does not exist", <<>>)>>, trace |-> none]
    ELSE IF read_raises
    THEN load_except(loaded, loading, <<>>, none)
    ELSE IF content.kind # "DataFrame"
    THEN [loaded |-> content, lines |-> loading \o <<loaded_line(ftype, len(content))>>,
          boxes |-> <<SuccessBox(len(content))>>,
          trace |-> [read |-> content, validate |-> NotValidated]]
    ELSE load_frame(content, response, loading \o <<loaded_line(ftype, len(content))>>)

\* the Load File button
load_file ==
    \E read_raises \in BOOLEAN, response \in BOOLEAN :
        \E r \in {load_file_result(input_file_path, file_type, loaded_data,
                                   read_file(input_file_path, file_content), read_raises, response)} :
           /\ loaded_data' = r.loaded
           /\ log' = log_append(log, r.lines)
           /\ msgbox' = IF r.boxes = <<>> THEN msgbox ELSE r.boxes[Len(r.boxes)]
           /\ call' = [fn |-> "load_file", had_data |-> loaded_data.kind # "NoneType",
                       answered_yes |-> r.trace.validate.asked = 1 /\ response,
                       read_raised |-> input_file_path # <<>> /\ exists(input_file_path) /\ read_raises,
                       read |-> r.trace.read, validate |-> r.trace.validate, boxes |-> r.boxes]
           /\ UNCHANGED <<path_vars, mode_vars, progress_vars, results, threads, disk, file_content>>

-----------------------------------------------------------------------------
(* process_data and the background thread *)

Unstarted == {t \in 1..MaxThreads : threads[t].pc = "unstarted"}

\* a variant that does not test the output path
starts_thread_without_path(loaded, output_path) == loaded.kind # "NoneType"

\* the guard of process_data: does it start a thread
starts_thread(loaded, output_path) == loaded.kind # "NoneType" /\ output_path # <<>>

\* the box process_data shows when it does not start a thread
rejection_box(loaded, output_path) ==
    IF loaded.kind = "NoneType"
    THEN Box("showerror", "Error", "Please load a file first", <<>>)
    ELSE IF output_path = <<>>
    THEN Box("showwarning", "Warning", "No output path specified", <<>>)
    ELSE NoBox

\* the Process Data button.  threading.Thread(...).start() runs the next thread object
\* of the model; the model stops starting threads after MaxThreads of them.
process_data ==
    IF starts_thread(loaded_data, output_file_path)
    THEN /\ Unstarted # {}
         /\ threads' = [threads EXCEPT ![SetMin(Unstarted)].pc = "L398"]
         /\ call' = [fn |-> "process_data", started |-> {SetMin(Unstarted)}]
         /\ UNCHANGED <<path_vars, mode_vars, loaded_data, progress_vars, log, results, msgbox,
                        disk, file_content>>
    ELSE /\ msgbox' = rejection_box(loaded_data, output_file_path)
         /\ call' = [fn |-> "process_data", started |-> {}]
         /\ UNCHANGED <<path_vars, mode_vars, loaded_data, progress_vars, log, results, threads,
                        disk, file_content>>

\* thread t is about to run the statement at line pc of _process_data_thread
At(t, pc) == threads[t].pc = pc

Goto(t, pc) == [threads EXCEPT ![t].pc = pc]

ThreadCall(t) == [fn |-> "_process_data_thread"]

\* thread t returns at pc, having shown the box titled title
Return(t, pc, title) ==
    [threads EXCEPT ![t].pc = pc, ![t].end_value = progress_value,
                    ![t].end_label = progress_label, ![t].end_box = title]

\* line 398: self.progress_bar['value'] = 0
L398(t) ==
    /\ At(t, "L398")
    /\ progress_value' = 0
    /\ threads' = Goto(t, "L399")
    /\ call' = ThreadCall(t)
    /\ UNCHANGED <<path_vars, mode_vars, loaded_data, progress_label, log, results, msgbox,
                   disk, file_content>>

\* line 399: self.progress_label.config(text="0%")
L399(t) ==
    /\ At(t, "L399")
    /\ progress_label' = "0%"
    /\ threads' = Goto(t, "L400")
    /\ call' = ThreadCall(t)
    /\ UNCHANGED <<path_vars, mode_vars, loaded_data, progress_value, log, results, msgbox,
                   disk, file_content>>

\* line 400: self.log_message("Starting data processing...")
L400(t) ==
    /\ At(t, "L400")
    /\ log' = log_append(log, <<Line("Starting data processing...", <<>>)>>)
    /\ threads' = Goto(t, "L405")
    /\ call' = ThreadCall(t)
    /\ UNCHANGED <<path_vars, mode_vars, loaded_data, progress_vars, results, msgbox,
                   disk, file_content>>

\* line 405: mass_tol = self.mass_tolerance.get(), which raises on text that is no number
L405(t) ==
    /\ At(t, "L405")
    /\ threads' = IF mass_tolerance = NotANumber
                  THEN Goto(t, "L429")
                  ELSE [threads EXCEPT ![t].pc = "L406", ![t].mass_tol = mass_tolerance]
    /\ call' = ThreadCall(t)
    /\ UNCHANGED <<path_vars, mode_vars, loaded_data, progress_vars, log, results, msgbox,
                   disk, file_content>>

\* line 406: self.log_message(f"Using mass tolerance: {mass_tol}")
L406(t) ==
    /\ At(t, "L406")
    /\ log' = log_append(log, <<Line("Using mass tolerance: {mass_tol}", <<TolToStr(threads[t].mass_tol)>>)>>)
    /\ threads' = Goto(t, "L411")
    /\ call' = ThreadCall(t)
    /\ UNCHANGED <<path_vars, mode_vars, loaded_data, progress_vars, results, msgbox,
                   disk, file_content>>

\* line 411: self.results = denoising_pipeline(self.loaded_data, mass_tol).  The frame
\* passed is the object self.loaded_data names, so line 9 of the pipeline relabels it.
L411(t) ==
    /\ At(t, "L411")
    /\ \E batch_raises \in BOOLEAN :
         LET r == denoising_pipeline(loaded_data, threads[t].mass_tol, batch_raises)
         IN /\ loaded_data' = r.input_after
            /\ results' = IF r.raised THEN results ELSE r.ret
            /\ threads' = [threads EXCEPT ![t].pc = IF r.raised THEN "L429" ELSE "L413",
                                          ![t].runs = @ + 1]
            /\ call' = ThreadCall(t)
    /\ UNCHANGED <<path_vars, mode_vars, progress_vars, log, msgbox, disk, file_content>>

\* line 413: output_path = self.output_file_path.get()
L413(t) ==
    /\ At(t, "L413")
    /\ threads' = [threads EXCEPT ![t].pc = "L415", ![t].output_path = output_file_path]
    /\ call' = ThreadCall(t)
    /\ UNCHANGED <<path_vars, mode_vars, loaded_data, progress_vars, log, results, msgbox,
                   disk, file_content>>

\* a variant that tests the suffix without regard to letter case
writer_for_any_case(loaded, output_path) ==
    IF loaded.kind # "DataFrame" THEN "none"
    ELSE IF endswith(lower(output_path), <<".","c","s","v">>) THEN "save_df"
    ELSE "write_to_msp"

\* which file_io function lines 415-421 call ("none": self.loaded_data is no DataFrame)
writer_for(loaded, output_path) ==
    IF loaded.kind # "DataFrame" THEN "none"
    ELSE IF endswith(output_path, <<".","c","s","v">>) THEN "save_df"
    ELSE "write_to_msp"

\* what lines 418 and 421 hand to file_io
write_of(writer, frame, output_path) ==
    [writer |-> writer, path |-> output_path, frame |-> frame,
     msms_col |-> IF writer = "write_to_msp" THEN S_denoised_peaks ELSE <<>>]

\* lines 415-421: the save, the file_io call raising or not
L415(t) ==
    /\ At(t, "L415")
    /\ LET w == writer_for(loaded_data, threads[t].output_path)
       IN \E write_raises \in BOOLEAN :
            /\ write_raises => w # "none"
            /\ disk' = IF w = "none" \/ write_raises THEN disk
                       ELSE write_of(w, results, threads[t].output_path)
            /\ log' = IF w = "save_df" /\ ~write_raises
                      THEN log_append(log, <<Line("Saved results to: {output_path}", <<threads[t].output_path>>)>>)
                      ELSE log
            /\ threads' = Goto(t, IF write_raises THEN "L429" ELSE "L423")
            /\ call' = ThreadCall(t)
    /\ UNCHANGED <<path_vars, mode_vars, loaded_data, progress_vars, results, msgbox, file_content>>

\* line 423: self.progress_bar['value'] = 100
L423(t) ==
    /\ At(t, "L423")
    /\ progress_value' = 100
    /\ threads' = Goto(t, "L424")
    /\ call' = ThreadCall(t)
    /\ UNCHANGED <<path_vars, mode_vars, loaded_data, progress_label, log, results, msgbox,
                   disk, file_content>>

\* line 424: self.progress_label.config(text="100%")
L424(t) ==
    /\ At(t, "L424")
    /\ progress_label' = "100%"
    /\ threads' = Goto(t, "L425")
    /\ call' = ThreadCall(t)
    /\ UNCHANGED <<path_vars, mode_vars, loaded_data, progress_value, log, results, msgbox,
                   disk, file_content>>

\* line 425: self.log_message("Processing completed successfully!")
L425(t) ==
    /\ At(t, "L425")
    /\ log' = log_append(log, <<Line("Processing completed successfully!", <<>>)>>)
    /\ threads' = Goto(t, "L426")
    /\ call' = ThreadCall(t)
    /\ UNCHANGED <<path_vars, mode_vars, loaded_data, progress_vars, results, msgbox,
                   disk, file_content>>

CompletedBox == Box("showinfo", "Success", "Data processing completed!", <<>>)

ProcessingFailedBox == Box("showerror", "Error", "Processing failed:\n{str(e)}", <<>>)

\* line 426: messagebox.showinfo("Success", "Data processing completed!"); the thread returns
L426(t) ==
    /\ At(t, "L426")
    /\ msgbox' = CompletedBox
    /\ threads' = Return(t, "done", CompletedBox.text)
    /\ call' = ThreadCall(t)
    /\ UNCHANGED <<path_vars, mode_vars, loaded_data, progress_vars, log, results,
                   disk, file_content>>

\* line 429, in the except clause: self.progress_bar['value'] = 0
L429(t) ==
    /\ At(t, "L429")
    /\ progress_value' = 0
    /\ threads' = Goto(t, "L430")
    /\ call' = ThreadCall(t)
    /\ UNCHANGED <<path_vars, mode_vars, loaded_data, progress_label, log, results, msgbox,
                   disk, file_content>>

\* line 430: self.progress_label.config(text="Error")
L430(t) ==
    /\ At(t, "L430")
    /\ progress_label' = "Error"
    /\ threads' = Goto(t, "L431")
    /\ call' = ThreadCall(t)
    /\ UNCHANGED <<path_vars, mode_vars, loaded_data, progress_value, log, results, msgbox,
                   disk, file_content>>

\* line 431: self.log_message(f"Error during processing: {str(e)}")
L431(t) ==
    /\ At(t, "L431")
    /\ log' = log_append(log, <<Line("Error during processing: {str(e)}", <<>>)>>)
    /\ threads' = Goto(t, "L432")
    /\ call' = ThreadCall(t)
    /\ UNCHANGED <<path_vars, mode_vars, loaded_data, progress_vars, results, msgbox,
                   disk, file_content>>

\* line 432: messagebox.showerror("Error", ...); the thread returns
L432(t) ==
    /\ At(t, "L432")
    /\ msgbox' = ProcessingFailedBox
    /\ threads' = Return(t, "failed", ProcessingFailedBox.text)
    /\ call' = ThreadCall(t)
    /\ UNCHANGED <<path_vars, mode_vars, loaded_data, progress_vars, log, results,
                   disk, file_content>>

\* one statement of _process_data_thread in thread t
ThreadStep(t) ==
    \/ L398(t) \/ L399(t) \/ L400(t) \/ L405(t) \/ L406(t) \/ L411(t) \/ L413(t) \/ L415(t)
    \/ L423(t) \/ L424(t) \/ L425(t) \/ L426(t)
    \/ L429(t) \/ L430(t) \/ L431(t) \/ L432(t)

-----------------------------------------------------------------------------
(* clear_all *)

\* a variant that also resets the progress bar and its label
clear_all_resets_progress ==
    /\ input_file_path' = <<>>
    /\ output_file_path' = <<>>
    /\ loaded_data' = NoneObj
    /\ log' = log_append(<<>>, <<Line("Cleared all data", <<>>)>>)
    /\ progress_value' = 0
    /\ progress_label' = "0%"
    /\ call' = [fn |-> "clear_all"]
    /\ UNCHANGED <<file_type, mode_vars, results, msgbox, threads, disk, file_content>>

\* the Clear button
clear_all ==
    /\ input_file_path' = <<>>
    /\ output_file_path' = <<>>
    /\ loaded_data' = NoneObj
    /\ log' = log_append(<<>>, <<Line("Cleared all data", <<>>)>>)
    /\ call' = [fn |-> "clear_all"]
    /\ UNCHANGED <<file_type, mode_vars, progress_vars, results, msgbox, threads, disk,
                   file_content>>

-----------------------------------------------------------------------------
(* Loading: the input path, the file type, Load File and Clear, for every file *)

InitLoad ==
    /\ GuiInit
    /\ file_content \in FileContents
    /\ call = NoCall

NextLoad ==
    \/ \E filename \in InputPaths : browse_input_file(filename)
    \/ load_file
    \/ clear_all

SpecLoad == InitLoad /\ [][NextLoad]_vars

\* df has a column labelled exactly name
Labelled(df, name) == \E i \in 1..Len(df.cols) : df.cols[i] = name

\* the cell of row r of df in its first column labelled name
CellOf(df, r, name) == df.data[r][CHOOSE i \in 1..Len(df.cols) : df.cols[i] = name /\ \A j \in 1..(i - 1) : df.cols[j] # name]

\* the Load File handler ran last and read a DataFrame
LoadedFrame == call.fn = "load_file" /\ call.read.kind = "DataFrame"

\* some box the handler showed is the 'File loaded!' success message
ShowedFileLoaded == \E k \in 1..Len(call.boxes) : call.boxes[k].title = "Success"

\* the required columns that the frame lacks, as the error message names them
Lacking(df) ==
    join(<<",", " ">>,
         SelectSeq(<<S_peaks, S_smiles, S_adducts>>, LAMBDA c : \A i \in 1..Len(df.cols) : df.cols[i] # c))

\* the run of load_file came through validation with a frame that lacks a required column
LacksRequired ==
    /\ LoadedFrame
    /\ call.validate.reached
    /\ ~call.validate.raised
    /\ call.validate.ret.kind = "DataFrame"
    /\ Lacking(call.validate.ret) # <<>>

\* C2: when the frame read lacks 'peaks', 'smiles' or 'adducts' after standardization,
\* extraction and validation, load_file names the missing columns in an 'Invalid File
\* Format' error, leaves loaded_data None and shows no 'File loaded!' message.
C2_MissingColumns ==
    LacksRequired =>
        /\ loaded_data = NoneObj
        /\ msgbox.kind = "showerror"
        /\ msgbox.title = "Invalid File Format"
        /\ msgbox.args[1] = Lacking(call.validate.ret)
        /\ ~ShowedFileLoaded

\* a frame without adducts is rejected while the data of an earlier load was held
C2_Witness ==
    /\ LacksRequired
    /\ call.had_data
    /\ ~HasCol(call.validate.ret, S_adducts)
    /\ HasCol(call.validate.ret, S_peaks)
    /\ loaded_data = NoneObj

\* the run of load_file called validate_smiles on a frame with a 'smiles' column
ValidatedSmiles ==
    /\ call.fn = "load_file"
    /\ call.validate.reached
    /\ Labelled(call.validate.arg, S_smiles)

\* the columns of df labelled 'smiles'
SmilesColumns(df) == {i \in 1..Len(df.cols) : df.cols[i] = S_smiles}

\* the rows of df with a SMILES that is missing or does not parse
InvalidRows(df) ==
    {r \in 1..Len(df.data) :
        \E i \in SmilesColumns(df) :
            df.data[r][i].t = "NoneType" \/ ~MolFromSmiles_ok(df.data[r][i].v)}

\* the valid rows of df in their order, labelled 0 .. k-1
ValidRowsOf(df) ==
    LET keep == SelectSeq([r \in 1..Len(df.data) |-> r], LAMBDA r : r \notin InvalidRows(df))
    IN DataFrame(df.cols, [k \in 1..Len(keep) |-> k - 1], [k \in 1..Len(keep) |-> df.data[keep[k]]])

\* what the claim says of the run of validate_smiles recorded in call
ValidatedAsClaimed ==
    LET df == call.validate.arg
    IN IF InvalidRows(df) = {}
       THEN /\ call.validate.ret = df
            /\ call.validate.asked = 0
       ELSE /\ call.validate.asked = 1
            /\ Len(SelectSeq(call.boxes, LAMBDA b : b.kind = "askyesno")) = 1
            /\ call.answered_yes => call.validate.ret = ValidRowsOf(df)
            /\ ~call.answered_yes =>
                  /\ call.validate.ret = NoneObj
                  /\ loaded_data = NoneObj
                  /\ ~ShowedFileLoaded

\* C4: with no invalid row validate_smiles returns the frame unchanged and does not ask;
\* with an invalid row it asks once, returns on 'yes' exactly the valid rows in their
\* order with the index 0..k-1, and on 'no' None, after which load_file ends with
\* loaded_data None and without the success message.
C4_AsStated == ValidatedSmiles => ValidatedAsClaimed

\* C4 for the frames in which exactly one column is labelled 'smiles': the statement of
\* C4 holds of every such frame.
C4_ValidateSmiles ==
    (ValidatedSmiles /\ Cardinality(SmilesColumns(call.validate.arg)) = 1) => ValidatedAsClaimed

\* two columns of the file were both renamed to 'smiles' and every row is valid, yet
\* the user is asked about invalid SMILES
C4_DuplicateLabels ==
    /\ ValidatedSmiles
    /\ Cardinality(SmilesColumns(call.validate.arg)) = 2
    /\ Len(call.validate.arg.data) >= 1
    /\ InvalidRows(call.validate.arg) = {}
    /\ call.validate.asked = 1

\* the first row is invalid, the user answers yes and a row is kept
C4_Witness ==
    /\ ValidatedSmiles
    /\ Cardinality(SmilesColumns(call.validate.arg)) = 1
    /\ 1 \in InvalidRows(call.validate.arg)
    /\ call.answered_yes
    /\ Len(call.validate.ret.data) >= 1
    /\ loaded_data = call.validate.ret

\* the user answers no while the data of an earlier load was held
C4_WitnessNo ==
    /\ ValidatedSmiles
    /\ call.validate.asked = 1
    /\ ~call.answered_yes
    /\ call.had_data

\* a step of the Load File handler
LoadFileStep == call'.fn = "load_file"

\* the step showed the one error box with this text, read no file, and left the data
\* held, the log, the paths, the file type, the tolerance controls, the progress bar,
\* the results and the threads as they were
RefusedWith(text) ==
    /\ call'.boxes = <<Box("showerror", "Error", text, <<>>)>>
    /\ msgbox' = Box("showerror", "Error", text, <<>>)
    /\ call'.read = NoneObj
    /\ ~call'.validate.reached
    /\ UNCHANGED <<loaded_data, log, path_vars, mode_vars, progress_vars, results, threads, disk>>

\* the step caught the reader's exception: it logged the file and the error, showed
\* 'Failed to load file', called nothing after the reader, and kept the data held
CaughtReaderError ==
    /\ call'.boxes = <<FailedToLoadBox>>
    /\ msgbox' = FailedToLoadBox
    /\ ~call'.validate.reached
    /\ Len(log') >= 2
    /\ log'[Len(log') - 1] = Line("Loading file: {file_path}", <<input_file_path>>)
    /\ log'[Len(log')] = Line("Error loading file: {str(e)}", <<>>)
    /\ UNCHANGED <<loaded_data, path_vars, mode_vars, progress_vars, results, threads, disk>>

\* C11: load_file with an empty input path, or with a path at which no file exists,
\* shows an error and reads nothing, leaving loaded_data (also the data of an earlier
\* load), the log and all other state of the window unchanged; and when the reader
\* raises, the exception is caught and reported and loaded_data keeps its value.
C11_LoadFileErrors ==
    [][LoadFileStep =>
          /\ (input_file_path = <<>> => RefusedWith("Please select an input file"))
          /\ (input_file_path = MissingPath => RefusedWith("File does not exist"))
          /\ (call'.read_raised => CaughtReaderError)]_vars

\* the reader raised while the data of an earlier load was held, and the data is still held
C11_Witness ==
    /\ call.fn = "load_file"
    /\ call.read_raised
    /\ call.had_data
    /\ loaded_data.kind = "DataFrame"

\* Load File was pressed for a path at which no file exists while data was held
C11_WitnessMissing ==
    /\ call.fn = "load_file"
    /\ input_file_path = MissingPath
    /\ call.had_data
    /\ loaded_data.kind = "DataFrame"
    /\ msgbox.text = "File does not exist"

-----------------------------------------------------------------------------
(* extract_smiles_from_comments applied to comment strings *)

\* the pieces comment strings are built from
CommentFragments ==
    { <<"c","o","m","p","u","t","e","d"," ">>, S_SMILES_eq, <<Quote>>, <<" ">>, <<"C">> }

CommentStrings ==
    {Concat(fs) : fs \in UNION {[1..n -> CommentFragments] : n \in 0..MaxFrags}}

\* the values a comments cell can hold: a string, a missing value, a number
CommentValues == {PyStr(s) : s \in CommentStrings} \cup {PyNone, [t |-> "int", v |-> <<"7">>]}

InitExtract ==
    /\ GuiInit
    /\ file_content = NoFile
    /\ call \in {[fn |-> "extract_smiles_from_comments", arg |-> c, ret |-> PyNone, done |-> FALSE] :
                    c \in CommentValues}

CallExtract ==
    /\ call.fn = "extract_smiles_from_comments"
    /\ ~call.done
    /\ call' = [call EXCEPT !.ret = extract_smiles_from_comments(call.arg), !.done = TRUE]
    /\ UNCHANGED gui_vars

SpecExtract == InitExtract /\ [][CallExtract]_vars

\* some occurrence of pat in s
Occurs(pat, s) == \E i \in 1..Len(s) : LiteralAt(pat, s, i)

FirstOccurrence(pat, s) == SetMin({i \in 1..Len(s) : LiteralAt(pat, s, i)})

\* the text of s from position j up to, not including, the next double quote or the end
UpToQuote(s, j) ==
    LET stops == {k \in j..Len(s) : s[k] = Quote} \cup {Len(s) + 1}
    IN SubSeq(s, j, SetMin(stops) - 1)

\* the occurrences of pat in s that a character other than a double quote follows
Captures(pat, s) ==
    {i \in 1..Len(s) : LiteralAt(pat, s, i) /\ i + Len(pat) <= Len(s) /\ s[i + Len(pat)] # Quote}

ExtractDone == call.fn = "extract_smiles_from_comments" /\ call.done

\* C9 as stated: None when the comment is missing, not a string or holds neither
\* pattern; otherwise the stripped text after the first 'computed SMILES=' if that
\* occurs, else after the first 'SMILES=', up to the next double quote or the end.
C9_AsStated ==
    ExtractDone =>
        LET c == call.arg
        IN IF c.t # "str" \/ (~Occurs(S_computed_SMILES_eq, c.v) /\ ~Occurs(S_SMILES_eq, c.v))
           THEN call.ret = PyNone
           ELSE LET pat == IF Occurs(S_computed_SMILES_eq, c.v)
                           THEN S_computed_SMILES_eq ELSE S_SMILES_eq
                IN call.ret = PyStr(strip(UpToQuote(c.v, FirstOccurrence(pat, c.v) + Len(pat))))

\* C9 amended: only an occurrence that is followed by at least one character other
\* than a double quote counts.  None when the comment is missing, not a string, or no
\* occurrence of either pattern counts; otherwise the stripped text after the first
\* counting 'computed SMILES=' if there is one, else after the first counting
\* 'SMILES=', up to the next double quote or the end; the result holds no double quote.
C9_Extract ==
    ExtractDone =>
        LET c == call.arg
        IN IF c.t # "str" \/ (Captures(S_computed_SMILES_eq, c.v) = {} /\ Captures(S_SMILES_eq, c.v) = {})
           THEN call.ret = PyNone
           ELSE LET pat == IF Captures(S_computed_SMILES_eq, c.v) # {}
                           THEN S_computed_SMILES_eq ELSE S_SMILES_eq
                IN /\ call.ret = PyStr(strip(UpToQuote(c.v, SetMin(Captures(pat, c.v)) + Len(pat))))
                   /\ \A k \in 1..Len(call.ret.v) : call.ret.v[k] # Quote

\* a comment whose first 'SMILES=' is followed by a double quote and that still yields a SMILES
C9_Witness ==
    /\ ExtractDone
    /\ call.arg.t = "str"
    /\ Occurs(S_SMILES_eq, call.arg.v)
    /\ FirstOccurrence(S_SMILES_eq, call.arg.v) \notin Captures(S_SMILES_eq, call.arg.v)
    /\ call.ret.t = "str"
    /\ call.ret.v # <<>>


-----------------------------------------------------------------------------
(* standardize_columns applied to frames *)

StdLabels ==
    << <<"M","S","M","S">>, <<"m","s","/","m","s">>, <<"P","e","a","k">>, S_peaks,
       <<"S","P","E","C","T","R","A">>, <<"S","p","e","c","t","r","u","m">>,
       <<"S","m","i","l","e">>, <<"S","M","I","L","E","S">>,
       <<"A","d","d","u","c","t">>, S_adducts,
       <<"N","a","m","e">>, <<"C","o","m","m","e","n","t","s">> >>

StdFrames == {MakeFrame(cols, <<"good", "bad">>) : cols \in LabelSelections(StdLabels, MaxCols)}

InitStd ==
    /\ GuiInit
    /\ file_content = NoFile
    /\ call \in {[fn |-> "standardize_columns", arg |-> df, ret |-> NoneObj, done |-> FALSE] :
                    df \in StdFrames}

CallStd ==
    /\ call.fn = "standardize_columns"
    /\ ~call.done
    /\ call' = [call EXCEPT !.ret = standardize_columns(call.arg), !.done = TRUE]
    /\ log' = log_append(log, standardize_columns_log(call.arg))
    /\ UNCHANGED <<path_vars, mode_vars, loaded_data, progress_vars, results, msgbox, threads,
                   disk, file_content>>

SpecStd == InitStd /\ [][CallStd]_vars

StdDone == call.fn = "standardize_columns" /\ call.done

PeaksAliases ==
    { <<"m","s","m","s">>, <<"m","s","/","m","s">>, <<"p","e","a","k">>, <<"p","e","a","k","s">>,
      <<"s","p","e","c","t","r","a">>, <<"s","p","e","c","t","r","u","m">> }

SmilesAliases == { <<"s","m","i","l","e">>, <<"s","m","i","l","e","s">> }

AdductsAliases == { <<"a","d","d","u","c","t">>, <<"a","d","d","u","c","t","s">> }

\* the label the claim gives a column labelled col
StandardLabel(col) ==
    IF lower(col) \in PeaksAliases THEN <<"p","e","a","k","s">>
    ELSE IF lower(col) \in SmilesAliases THEN <<"s","m","i","l","e","s">>
    ELSE IF lower(col) \in AdductsAliases THEN <<"a","d","d","u","c","t","s">>
    ELSE col

\* C6: standardize_columns renames, whatever the letter case, the aliases of peaks,
\* smiles and adducts; every other label stays as written; the number and order of
\* the columns, the rows and the cells are unchanged.
C6_StandardizeColumns ==
    StdDone =>
        /\ Len(call.ret.cols) = Len(call.arg.cols)
        /\ \A i \in 1..Len(call.arg.cols) : call.ret.cols[i] = StandardLabel(call.arg.cols[i])
        /\ call.ret.data = call.arg.data
        /\ call.ret.index = call.arg.index
        /\ call.ret.kind = "DataFrame"

\* a frame with an upper-case alias that is renamed and an upper-case label that stays
C6_Witness ==
    /\ StdDone
    /\ \E i \in 1..Len(call.arg.cols) :
          call.arg.cols[i] = <<"M","S","M","S">> /\ call.ret.cols[i] = <<"p","e","a","k","s">>
    /\ \E i \in 1..Len(call.arg.cols) :
          call.arg.cols[i] = <<"N","a","m","e">> /\ call.ret.cols[i] = <<"N","a","m","e">>

-----------------------------------------------------------------------------
(* fill_missing_smiles applied to frames *)

FillLabels ==
    << S_peaks, S_smiles, <<"S","M","I","L","E","S">>, S_comments,
       <<"C","o","m","m","e","n","t","s">> >>

FillFrames ==
    {MakeFrame(cols, kinds) : cols \in LabelSelections(FillLabels, MaxCols), kinds \in RowKindSeqs}

InitFill ==
    /\ GuiInit
    /\ file_content = NoFile
    /\ call \in {[fn |-> "fill_missing_smiles", arg |-> df, ret |-> NoneObj, done |-> FALSE] :
                    df \in FillFrames}

CallFill ==
    /\ call.fn = "fill_missing_smiles"
    /\ ~call.done
    /\ call' = [call EXCEPT !.ret = fill_missing_smiles(call.arg), !.done = TRUE]
    /\ log' = log_append(log, fill_missing_smiles_log(call.arg))
    /\ UNCHANGED <<path_vars, mode_vars, loaded_data, progress_vars, results, msgbox, threads,
                   disk, file_content>>

SpecFill == InitFill /\ [][CallFill]_vars

FillDone == call.fn = "fill_missing_smiles" /\ call.done

\* C10: fill_missing_smiles adds a 'smiles' column, computed row by row from 'comments',
\* only when the frame has no 'smiles' and has a 'comments' column; otherwise the frame
\* comes back unchanged; the rows and the other columns are unchanged in every case.
C10_FillMissingSmiles ==
    FillDone =>
        LET df == call.arg
            out == call.ret
        IN IF ~Labelled(df, S_smiles) /\ Labelled(df, S_comments)
           THEN /\ out.cols = df.cols \o <<S_smiles>>
                /\ out.index = df.index
                /\ Len(out.data) = Len(df.data)
                /\ \A r \in 1..Len(df.data) :
                      /\ SubSeq(out.data[r], 1, Len(df.cols)) = df.data[r]
                      /\ out.data[r][Len(df.cols) + 1] =
                            extract_smiles_from_comments(CellOf(df, r, S_comments))
           ELSE out = df

\* a frame with 'smiles' and 'comments' whose comments hold another SMILES than the column
C10_Witness ==
    /\ FillDone
    /\ Labelled(call.arg, S_smiles)
    /\ Labelled(call.arg, S_comments)
    /\ Len(call.arg.data) >= 1
    /\ extract_smiles_from_comments(CellOf(call.arg, 1, S_comments)) # CellOf(call.arg, 1, S_smiles)
    /\ call.ret = call.arg

\* a frame without 'smiles' whose new column holds an extracted SMILES
C10_WitnessAdded ==
    /\ FillDone
    /\ Len(call.ret.cols) = Len(call.arg.cols) + 1
    /\ Len(call.ret.data) >= 1
    /\ call.ret.data[1][Len(call.ret.cols)] = PyStr(<<"C","N">>)


-----------------------------------------------------------------------------
(* denoising_pipeline applied to frames *)

PipelineLabels ==
    << <<"P","e","a","k","s">>, <<"S","M","I","L","E","S">>, S_adducts,
       <<"D","e","n","o","i","s","e","d","_","P","e","a","k","s">>, <<"N","a","m","e">> >>

PipelineFrames ==
    {MakeFrame(cols, kinds) : cols \in LabelSelections(PipelineLabels, MaxCols), kinds \in RowKindSeqs}

\* the record of a call that has not run yet
NoOutcome == [raised |-> FALSE, ret |-> NoneObj, input_after |-> NoneObj, batch_calls |-> <<>>]

InitPipeline ==
    /\ GuiInit
    /\ file_content = NoFile
    /\ call \in {[fn |-> "denoising_pipeline", input_df |-> df, mass_error |-> e,
                  batch_raises |-> b, out |-> NoOutcome, done |-> FALSE] :
                    df \in PipelineFrames, e \in {OrbitrapTol, TofTol}, b \in BOOLEAN}

CallPipeline ==
    /\ call.fn = "denoising_pipeline"
    /\ ~call.done
    /\ call' = [call EXCEPT !.out = denoising_pipeline(call.input_df, call.mass_error, call.batch_raises),
                            !.done = TRUE]
    /\ UNCHANGED gui_vars

SpecPipeline == InitPipeline /\ [][CallPipeline]_vars

PipelineDone == call.fn = "denoising_pipeline" /\ call.done

\* the labels of df in lower case
LowerCased(df) == [i \in 1..Len(df.cols) |-> lower(df.cols[i])]

\* df under its lower-cased labels
Relabelled(df) == [df EXCEPT !.cols = LowerCased(df)]

\* the lower-cased frame has the three columns the batch call takes
HasBatchColumns(df) ==
    /\ Labelled(Relabelled(df), S_peaks)
    /\ Labelled(Relabelled(df), S_smiles)
    /\ Labelled(Relabelled(df), S_adducts)

\* the column of df labelled name, row by row
ColumnOf(df, name) == [r \in 1..Len(df.data) |-> CellOf(df, r, name)]

\* the batch was called once, with the three columns and the tolerance
CalledBatchOnce ==
    LET low == Relabelled(call.input_df)
        calls == call.out.batch_calls
    IN /\ Len(calls) = 1
       /\ calls[1].peaks = <<ColumnOf(low, S_peaks)>>
       /\ calls[1].smiles = <<ColumnOf(low, S_smiles)>>
       /\ calls[1].adducts = <<ColumnOf(low, S_adducts)>>
       /\ calls[1].mass_tolerance = call.mass_error

\* what the batch returns for row r of the lower-cased frame
BatchResult(r) ==
    LET low == Relabelled(call.input_df)
    IN Denoised(CellOf(low, r, S_peaks), CellOf(low, r, S_smiles), CellOf(low, r, S_adducts),
                call.mass_error)

\* the frame returned is the lower-cased input plus one added column 'denoised_peaks'
ReturnedWithAddedColumn ==
    LET df == call.input_df
        out == call.out.ret
    IN /\ out.kind = "DataFrame"
       /\ out.cols = LowerCased(df) \o <<S_denoised_peaks>>
       /\ out.index = df.index
       /\ Len(out.data) = Len(df.data)
       /\ \A r \in 1..Len(df.data) : out.data[r] = df.data[r] \o <<BatchResult(r)>>

\* the frame returned is the lower-cased input with its 'denoised_peaks' cells replaced
ReturnedWithReplacedColumn ==
    LET df == call.input_df
        out == call.out.ret
    IN /\ out.kind = "DataFrame"
       /\ out.cols = LowerCased(df)
       /\ out.index = df.index
       /\ Len(out.data) = Len(df.data)
       /\ \A r \in 1..Len(df.data) : \A c \in 1..Len(df.cols) :
             out.data[r][c] = IF LowerCased(df)[c] = S_denoised_peaks THEN BatchResult(r)
                              ELSE df.data[r][c]

\* C3 as stated, for the calls that return: the caller's columns are lower-cased, the
\* batch is called once with the three columns and the tolerance, and the frame
\* returned has the rows and lower-cased columns of the input plus one added column
\* 'denoised_peaks' holding the batch result.
C3_AsStated ==
    (PipelineDone /\ ~call.out.raised) =>
        /\ call.out.input_after = Relabelled(call.input_df)
        /\ CalledBatchOnce
        /\ ReturnedWithAddedColumn

\* C3: denoising_pipeline lower-cases the caller's column names; without 'peaks',
\* 'smiles' or 'adducts' among them it raises and makes no batch call; otherwise it
\* calls the batch once with the three columns and the tolerance and, when that call
\* returns, returns the rows and lower-cased columns of the input with 'denoised_peaks'
\* holding the batch result: one added last column, or the column of that name replaced.
C3_Pipeline ==
    PipelineDone =>
        /\ call.out.input_after = Relabelled(call.input_df)
        /\ IF HasBatchColumns(call.input_df)
           THEN /\ CalledBatchOnce
                /\ call.out.raised = call.batch_raises
                /\ ~call.out.raised =>
                      IF Labelled(Relabelled(call.input_df), S_denoised_peaks)
                      THEN ReturnedWithReplacedColumn
                      ELSE ReturnedWithAddedColumn
           ELSE /\ call.out.raised
                /\ call.out.batch_calls = <<>>

\* a frame with a column 'Denoised_Peaks' comes back with as many columns as it had
C3_Witness ==
    /\ PipelineDone
    /\ ~call.out.raised
    /\ Len(call.input_df.data) >= 1
    /\ Labelled(call.input_df, <<"D","e","n","o","i","s","e","d","_","P","e","a","k","s">>)
    /\ Len(call.out.ret.cols) = Len(call.input_df.cols)
    /\ CellOf(call.out.ret, 1, S_denoised_peaks) = BatchResult(1)

\* a frame without such a column comes back with one column more
C3_WitnessAdded ==
    /\ PipelineDone
    /\ ~call.out.raised
    /\ Len(call.input_df.data) >= 1
    /\ Len(call.out.ret.cols) = Len(call.input_df.cols) + 1


-----------------------------------------------------------------------------
(* head_to_tail_plot applied to its arguments *)

SpectrumArgs == {"array", "str", "float"}

PlotCalls ==
    [fn : {"head_to_tail_plot"}, msms1 : SpectrumArgs, msms2 : SpectrumArgs,
     pmz : {PyNone, PyInt(7)}, manual_min : {PyNone, PyInt(0)},
     savepath : {PyNone, PyStr(<<"f",".","e","p","s">>)},
     show : {PyBool(TRUE), PyBool(FALSE), PyInt(1), PyInt(0)},
     eps : {PyBool(TRUE), PyBool(FALSE)}, lib_raises : BOOLEAN,
     out : {[raised |-> FALSE, ret |-> PyNone, saved |-> NoSave]}, done : {FALSE}]

InitPlot ==
    /\ GuiInit
    /\ file_content = NoFile
    /\ call \in PlotCalls

CallPlot ==
    /\ call.fn = "head_to_tail_plot"
    /\ ~call.done
    /\ call' = [call EXCEPT !.out = head_to_tail_plot(call.msms1, call.msms2, call.pmz,
                                                      call.manual_min, call.savepath, call.show,
                                                      call.eps, call.lib_raises),
                            !.done = TRUE]
    /\ UNCHANGED gui_vars

SpecPlot == InitPlot /\ [][CallPlot]_vars

PlotReturned == call.fn = "head_to_tail_plot" /\ call.done /\ ~call.out.raised

\* the argument show is True (or the 1 that Python counts equal to it)
ShowIsTrue == call.show \in {PyBool(TRUE), PyInt(1)}

\* C7: head_to_tail_plot returns the plot object if show is True, otherwise None.
C7_AsStated ==
    PlotReturned =>
        call.out.ret = IF ShowIsTrue THEN PyPlt ELSE PyNone

\* two spectra are plotted with show=False and the call returns the empty tuple
C7_Witness ==
    /\ PlotReturned
    /\ call.msms1 = "array"
    /\ call.msms2 = "array"
    /\ call.show = PyBool(FALSE)
    /\ call.out.ret = PyEmptyTuple


-----------------------------------------------------------------------------
(* The mass tolerance controls *)

InitMode ==
    /\ GuiInit
    /\ file_content = NoFile
    /\ call = NoCall

NextMode ==
    \/ \E mode \in {"orbitrap", "tof", "custom"} : on_mass_mode_change(mode)
    \/ \E v \in TypedTolerances : EditTolerance(v)
    \/ \E filename \in {<<>>, <<"o","u","t">>} : browse_output_file(filename)
    \/ \E path \in {<<>>, ExistingPath} : SetInputPath(path)
    \/ \E ft \in {"msp", "csv"} : SelectFileType(ft)

SpecMode == InitMode /\ [][NextMode]_vars

\* the mode radio button was used last, and 'custom' was picked
PickedCustom == call.fn = "on_mass_mode_change" /\ call.mode = "custom"

\* C8: the custom tolerance entry is enabled exactly in mode 'custom', the tolerance is
\* 0.005 in mode 'orbitrap' and 0.01 in mode 'tof', and picking 'custom' leaves the
\* tolerance as it was.
C8_MassMode ==
    /\ (custom_tol_entry = "normal") = (mass_mode = "custom")
    /\ custom_tol_entry \in {"normal", "disabled"}
    /\ mass_mode = "orbitrap" => mass_tolerance = OrbitrapTol
    /\ mass_mode = "tof" => mass_tolerance = TofTol
    /\ PickedCustom => mass_tolerance = call.tol_before

\* 'custom' was picked in mode 'tof': the entry is enabled and the tolerance is still 0.01
C8_Witness ==
    /\ PickedCustom
    /\ call.tol_before = TofTol
    /\ mass_tolerance = TofTol
    /\ custom_tol_entry = "normal"

-----------------------------------------------------------------------------
(* Processing: Load File, the output path, Process Data and the threads it starts *)

ProcOutputPaths == {<<>>, <<"o",".","c","s","v">>}

\* what Load File leaves after reading the library file into the new window
LibraryLoaded == load_file_result(LibraryPath, "msp", NoneObj, LibraryContent, FALSE, FALSE)

\* the window after the user put LibraryPath into the input entry and pressed Load File
InitProc ==
    /\ input_file_path = LibraryPath
    /\ output_file_path = <<>>
    /\ file_type = "msp"
    /\ mass_tolerance = OrbitrapTol
    /\ mass_mode = "orbitrap"
    /\ loaded_data = LibraryLoaded.loaded
    /\ custom_tol_entry = "disabled"
    /\ progress_value = 0
    /\ progress_label = "0%"
    /\ log = log_append(log_append(<<>>, <<Line("Mass tolerance set to: 0.005 Da (Orbitrap)", <<>>)>>),
                        LibraryLoaded.lines)
    /\ results = Unset
    /\ msgbox = LibraryLoaded.boxes[Len(LibraryLoaded.boxes)]
    /\ threads = [t \in 1..MaxThreads |-> NoThread]
    /\ disk = NoWrite
    /\ file_content = NoFile
    /\ call = NoCall

NextProc ==
    \/ \E path \in ProcOutputPaths : SetOutputPath(path)
    \/ on_mass_mode_change("custom")
    \/ EditTolerance(NotANumber)
    \/ process_data
    \/ \E t \in 1..MaxThreads : ThreadStep(t)
    \/ clear_all

SpecProc == InitProc /\ [][NextProc]_vars

\* the step is a run of the Process Data handler
ProcessDataStep == call'.fn = "process_data"

\* the handler started exactly one thread, at the first statement of _process_data_thread
StartedOneThread ==
    \E t \in 1..MaxThreads :
        /\ call'.started = {t}
        /\ threads[t].pc = "unstarted"
        /\ threads'[t].pc = "L398"
        /\ \A u \in 1..MaxThreads : u # t => threads'[u] = threads[u]

\* the handler started no thread and left the data, the output path and the progress bar
Rejected ==
    /\ call'.started = {}
    /\ threads' = threads
    /\ loaded_data' = loaded_data
    /\ output_file_path' = output_file_path
    /\ progress_value' = progress_value
    /\ progress_label' = progress_label

ShowsLoadFirst ==
    /\ msgbox'.kind = "showerror"
    /\ msgbox'.text = "Please load a file first"

ShowsNoOutputPath ==
    /\ msgbox'.kind = "showwarning"
    /\ msgbox'.text = "No output path specified"

\* C1 as stated: a thread is started iff data is loaded and the output path is not
\* empty; with no data the error 'Please load a file first' is shown, with an empty
\* output path the warning 'No output path specified'; a rejected call starts no
\* thread and leaves loaded_data, the output path and the progress bar.
C1_AsStated ==
    [][ProcessDataStep =>
          /\ IF loaded_data.kind # "NoneType" /\ output_file_path # <<>>
             THEN StartedOneThread ELSE Rejected
          /\ loaded_data.kind = "NoneType" => ShowsLoadFirst
          /\ output_file_path = <<>> => ShowsNoOutputPath]_vars

\* C1: as stated, except that the warning 'No output path specified' is shown for an
\* empty output path only when data is loaded; with no data the error 'Please load a
\* file first' is the one box shown, whatever the output path.
C1_ProcessData ==
    [][ProcessDataStep =>
          /\ IF loaded_data.kind # "NoneType" /\ output_file_path # <<>>
             THEN StartedOneThread ELSE Rejected
          /\ loaded_data.kind = "NoneType" => ShowsLoadFirst
          /\ (loaded_data.kind # "NoneType" /\ output_file_path = <<>>) => ShowsNoOutputPath]_vars

\* Process Data was rejected for the missing output path while a thread had already
\* moved the progress bar
C1_Witness ==
    /\ call.fn = "process_data"
    /\ call.started = {}
    /\ loaded_data.kind = "DataFrame"
    /\ output_file_path = <<>>
    /\ msgbox.text = "No output path specified"
    /\ progress_value = 100

\* Process Data was rejected with no data and no output path
C1_WitnessNoData ==
    /\ call.fn = "process_data"
    /\ call.started = {}
    /\ loaded_data = NoneObj
    /\ output_file_path = <<>>
    /\ msgbox.text = "Please load a file first"

\* C5, the outcome of a thread: when a thread returns it has shown either 'Data
\* processing completed!' with the progress bar at 100 and the label '100%', or
\* 'Processing failed' with the progress bar at 0 and the label 'Error'.
C5_AsStated ==
    \A t \in 1..MaxThreads :
        /\ threads[t].pc = "done" =>
              /\ threads[t].end_box = "Data processing completed!"
              /\ threads[t].end_value = 100
              /\ threads[t].end_label = "100%"
        /\ threads[t].pc = "failed" =>
              /\ threads[t].end_box = "Processing failed:\n{str(e)}"
              /\ threads[t].end_value = 0
              /\ threads[t].end_label = "Error"

\* a thread showed 'Data processing completed!' while the progress bar stood at 0
C5_Witness ==
    \E t \in 1..MaxThreads :
        /\ threads[t].pc = "done"
        /\ threads[t].end_box = "Data processing completed!"
        /\ threads[t].end_value = 0

\* a thread never calls the pipeline twice, and a thread that returned after the
\* success message called it once
C5_PipelineRuns ==
    \A t \in 1..MaxThreads :
        /\ threads[t].runs <= 1
        /\ threads[t].pc = "done" => threads[t].runs = 1

\* a thread failed without calling the pipeline: the tolerance entry held no number
C5_WitnessNoRun ==
    \E t \in 1..MaxThreads : threads[t].pc = "failed" /\ threads[t].runs = 0

\* a step of the Clear handler
ClearStep == call'.fn = "clear_all"

\* C12: clear_all sets the input path and the output path to the empty string, sets
\* loaded_data to None and replaces the log by the single line 'Cleared all data', and
\* leaves the file type, the mass mode, the mass tolerance, the progress bar value and
\* label and the stored results unchanged; a process_data that follows it is rejected
\* with 'Please load a file first'.
C12_ClearAll ==
    [][/\ ClearStep =>
             /\ input_file_path' = <<>>
             /\ output_file_path' = <<>>
             /\ loaded_data' = NoneObj
             /\ log' = <<Line("Cleared all data", <<>>)>>
             /\ UNCHANGED <<file_type, mass_mode, mass_tolerance, progress_value,
                            progress_label, results>>
       /\ (call.fn = "clear_all" /\ ProcessDataStep) => (Rejected /\ ShowsLoadFirst)]_vars

\* Clear was pressed in a window that held results, a finished progress bar and the
\* mode 'custom', and all of them are still there
C12_Witness ==
    /\ call.fn = "clear_all"
    /\ loaded_data = NoneObj
    /\ log = <<Line("Cleared all data", <<>>)>>
    /\ results # Unset
    /\ progress_value = 100
    /\ progress_label = "100%"
    /\ mass_mode = "custom"

-----------------------------------------------------------------------------
(* Saving: the threads of Process Data for every kind of output path *)

\* the output paths the user saves to: '.csv', '.CSV', no extension, '.msp', and a
\* name that ends in 'csv' without the dot
SavePaths ==
    { <<"o",".","c","s","v">>, <<"o",".","C","S","V">>, <<"o">>, <<"o",".","m","s","p">>,
      <<"c","s","v">> }

\* what Load File leaves after reading the library file with the file type ft selected
LibraryLoadedAs(ft) == load_file_result(LibraryPath, ft, NoneObj, LibraryContent, FALSE, FALSE)

\* the window after the user picked a file type, loaded the library file and entered
\* an output path
InitSave ==
    /\ input_file_path = LibraryPath
    /\ output_file_path \in SavePaths
    /\ file_type \in {"msp", "csv"}
    /\ mass_tolerance = OrbitrapTol
    /\ mass_mode = "orbitrap"
    /\ loaded_data = LibraryLoadedAs(file_type).loaded
    /\ custom_tol_entry = "disabled"
    /\ progress_value = 0
    /\ progress_label = "0%"
    /\ log = log_append(log_append(<<>>, <<Line("Mass tolerance set to: 0.005 Da (Orbitrap)", <<>>)>>),
                        LibraryLoadedAs(file_type).lines)
    /\ results = Unset
    /\ msgbox = LibraryLoadedAs(file_type).boxes[Len(LibraryLoadedAs(file_type).boxes)]
    /\ threads = [t \in 1..MaxThreads |-> NoThread]
    /\ disk = NoWrite
    /\ file_content = NoFile
    /\ call = NoCall

NextSave ==
    \/ process_data
    \/ \E t \in 1..MaxThreads : ThreadStep(t)
    \/ \E path \in {<<>>, <<"o",".","C","S","V">>} : SetOutputPath(path)

SpecSave == InitSave /\ [][NextSave]_vars

\* the last four characters of path are exactly '.csv'
HasCsvSuffix(path) ==
    /\ Len(path) >= 4
    /\ SubSeq(path, Len(path) - 3, Len(path)) = <<".","c","s","v">>

\* thread t executes lines 415-421 and the file_io call it makes returns
Saves(t) ==
    /\ threads[t].pc = "L415"
    /\ threads'[t].pc = "L423"
    /\ loaded_data.kind = "DataFrame"

\* C13: when a processing thread saves its results it writes them to the output path
\* it read, through file_io.save_df if and only if that path ends with the exact
\* suffix '.csv', and for every other path through file_io.write_to_msp with
\* 'denoised_peaks' as the spectrum column; the file type selected plays no part.
C13_Save ==
    [][\A t \in 1..MaxThreads :
          Saves(t) =>
             /\ disk'.path = threads[t].output_path
             /\ disk'.frame = results
             /\ disk'.writer \in {"save_df", "write_to_msp"}
             /\ disk'.writer = "save_df" <=> HasCsvSuffix(threads[t].output_path)
             /\ disk'.writer = "write_to_msp" => disk'.msms_col = S_denoised_peaks]_vars

\* results were written as MSP to a path that ends in '.CSV' with the file type 'csv' selected
C13_Witness ==
    /\ disk.writer = "write_to_msp"
    /\ disk.path = <<"o",".","C","S","V">>
    /\ disk.msms_col = S_denoised_peaks
    /\ file_type = "csv"

\* results were written as CSV with the file type 'msp' selected
C13_WitnessCsv ==
    /\ disk.writer = "save_df"
    /\ disk.path = <<"o",".","c","s","v">>
    /\ file_type = "msp"

-----------------------------------------------------------------------------
(* Processing: how many threads run at a time *)

\* thread t has been started and has not returned
Running(t) == threads[t].pc \notin {"unstarted", "done", "failed"}

\* C14: at most one processing thread is running at any time.
C14_AsStated == Cardinality({t \in 1..MaxThreads : Running(t)}) <= 1

\* Process Data started a thread while an earlier one was running, and now one thread
\* is about to assign self.results while another is about to write the output file
C14_Witness ==
    \E t, u \in 1..MaxThreads :
        /\ t < u
        /\ At(t, "L415")
        /\ At(u, "L411")

=============================================================================
